---- MODULE Spec2Model ----
(***************************************************************************)
(* Model of findash/transactions_db.py: TransactionsDBSchema and the       *)
(* partitioned parquet store TransactionsDBParquet.                        *)
(*                                                                         *)
(* A DataFrame is a record [cols, rows]: the set of its column names and   *)
(* the sequence of its rows, each row a function from cols to values.      *)
(* The store root is the pair (dirs, files): the year subdirectories that  *)
(* exist under the root and the content of every <year>/<month>.pq file.   *)
(* The pandas row index is left out: no operation of the store reads it.   *)
(* Months reach save_db as the integer pairs _get_months_from_uuid builds,  *)
(* so a file path is modelled by its <<year, month>> pair.                 *)
(* Each operation records its name, its arguments and the way it ended     *)
(* ("ok" or the exception it raised) in op and err.                        *)
(***************************************************************************)
EXTENDS Integers, Sequences, FiniteSets, TLC

(* ---------------------------- bounds ---------------------------------- *)
\* largest number of rows the in-memory table is let to grow to
MaxRows == 2
\* number of values create_uuid hands out in one behaviour
MaxUuid == 1
\* longest frame, uuid list or month list passed to an operation
MaxList == 2

(* --------------------------- value domains ---------------------------- *)
\* the (year, month) partitions the inputs are dated in
Keys == {<<2022, 1>>, <<2022, 3>>, <<2023, 1>>}
Years == {k[1] : k \in Keys}
\* ids produced by create_uuid are 1..MaxUuid; the ids of Record objects are
\* built by the caller; StoredIds are the ids an earlier run left in the files
RecordIds == {101}
StoredIds == {101, 102}
Uuids == 1 .. MaxUuid
AllIds == Uuids \cup RecordIds \cup StoredIds
NaN == "NaN"
None == "None"

(* ------------------------ TransactionsDBSchema ------------------------ *)
ID == "id"
DATE == "date"
PAYEE == "payee"
CAT == "cat"
MEMO == "memo"
ACCOUNT == "account"
INFLOW == "inflow"
OUTFLOW == "outflow"
RECONCILED == "reconciled"
AMOUNT == "amount"

get_mandatory_cols == {DATE, PAYEE, AMOUNT}

\* column -> default value, as handed out by the registry (raw, uncoerced)
get_non_mandatory_cols ==
  (CAT :> "") @@ (MEMO :> "") @@ (ACCOUNT :> None) @@
  (INFLOW :> 0) @@ (OUTFLOW :> 0) @@ (RECONCILED :> FALSE)

get_db_col_names ==
  {ID, DATE, PAYEE, CAT, MEMO, ACCOUNT, INFLOW, OUTFLOW, RECONCILED, AMOUNT}

get_numeric_cols == {INFLOW, OUTFLOW, AMOUNT}

(* ----------------------------- values --------------------------------- *)
\* a float is kept apart from the integer it was cast from
Float(n) == <<"float", n>>
\* a raw date is the text "y-m-d", held as the triple of its numbers;
\* pd.to_datetime turns it into a timestamp with year, month and day
ToDatetime(s) == [year |-> s[1], month |-> s[2], day |-> s[3]]
\* astype(bool) of a raw 0 / 1 flag
ToBool(v) == v # 0
\* astype('category') keeps the text and turns None into NaN
ToCategory(v) == IF v = None THEN NaN ELSE v

VARIABLES
  db,       \* self._db: the in-memory table, [cols, rows]
  dirs,     \* the year subdirectories that exist under trans_db_path
  files,    \* <<year, month>> -> rows of the file <year>/<month>.pq
  uuids,    \* how many values create_uuid has returned so far
  op,       \* the call that ran last: its name and its arguments
  err,      \* how that call ended: "ok" or the exception it raised
  result    \* the frame the last query returned

vars == <<db, dirs, files, uuids, op, err, result>>

\* pd.DataFrame(): no columns, no rows
EmptyFrame == [cols |-> {}, rows |-> <<>>]

(* ----------------------------- helpers -------------------------------- *)
\* the (year, month) of a row's date
PartitionKey(row) == <<row[DATE].year, row[DATE].month>>

\* the elements of a list
Range(s) == {s[i] : i \in 1 .. Len(s)}

\* every ordering of a finite set, as sequences without repetition
Orders(S) ==
  {s \in [1 .. Cardinality(S) -> S] : \A i, j \in 1 .. Cardinality(S) : s[i] = s[j] => i = j}

\* sequences over S of length 0 .. n
SeqsUpTo(S, n) == UNION {[1 .. k -> S] : k \in 0 .. n}

\* the lists of length 0 .. n that name no element twice
ListsUpTo(S, n) ==
  {s \in SeqsUpTo(S, n) : \A i, j \in 1 .. Len(s) : s[i] = s[j] => i = j}

\* a row re-indexed to a column set, NaN where it has no value
Reindex(row, cols) == [c \in cols |-> IF c \in DOMAIN row THEN row[c] ELSE NaN]

\* pd.concat with its frames in the other order: rows of b then rows of a
ConcatNewFirst(a, b) ==
  LET cols == a.cols \cup b.cols
  IN [cols |-> cols,
      rows |-> [i \in 1 .. Len(b.rows) |-> Reindex(b.rows[i], cols)] \o
               [i \in 1 .. Len(a.rows) |-> Reindex(a.rows[i], cols)]]

\* pd.concat([a, b]): rows of a then rows of b over the union of the columns
Concat(a, b) ==
  LET cols == a.cols \cup b.cols
  IN [cols |-> cols,
      rows |-> [i \in 1 .. Len(a.rows) |-> Reindex(a.rows[i], cols)] \o
               [i \in 1 .. Len(b.rows) |-> Reindex(b.rows[i], cols)]]

\* frame[frame['id'].isin(uuid_list)]
IsIn(frame, uuid_list) ==
  LET hit(row) == row[ID] \in Range(uuid_list)
  IN [cols |-> frame.cols, rows |-> SelectSeq(frame.rows, hit)]

\* frame[~frame['id'].isin(uuid_list)]
NotIsIn(frame, uuid_list) ==
  LET keep(row) == row[ID] \notin Range(uuid_list)
  IN [cols |-> frame.cols, rows |-> SelectSeq(frame.rows, keep)]

\* MonthRows with cond2 left out: every row of the year
MonthRowsYearOnly(frame, year, month) ==
  LET cond(row) == row[DATE].year = year
  IN SelectSeq(frame.rows, cond)

\* frame[cond1 & cond2] of save_db: the rows dated in (year, month)
MonthRows(frame, year, month) ==
  LET cond(row) == row[DATE].year = year /\ row[DATE].month = month
  IN SelectSeq(frame.rows, cond)

\* to_parquet appending to the file it finds instead of replacing it
to_parquet_append(fs, path, rows) ==
  [k \in DOMAIN fs \cup {path} |->
     IF k = path THEN (IF k \in DOMAIN fs THEN fs[k] ELSE <<>>) \o rows ELSE fs[k]]

\* DataFrame.to_parquet(path): the file at <year>/<month>.pq is replaced
to_parquet(fs, path, rows) ==
  [k \in DOMAIN fs \cup {path} |-> IF k = path THEN rows ELSE fs[k]]

(* ------------------------------ save_db ------------------------------- *)
\* save_db writing all of months_to_save or, when one write would fail, none
save_db_all_or_nothing(frame, ds, fs, months_to_save) ==
  IF months_to_save = <<>> THEN [files |-> fs, err |-> "ok"]
  ELSE IF DATE \notin frame.cols THEN [files |-> fs, err |-> "KeyError"]
  ELSE IF \E i \in 1 .. Len(months_to_save) : months_to_save[i][1] \notin ds
       THEN [files |-> fs, err |-> "OSError"]
  ELSE [files |-> [k \in DOMAIN fs \cup Range(months_to_save) |->
                     IF k \in Range(months_to_save) THEN MonthRows(frame, k[1], k[2])
                     ELSE fs[k]],
        err |-> "ok"]

\* the loop of save_db over months_to_save; stops at the first exception:
\* KeyError when the table has no date column, OSError when the year
\* directory does not exist (to_parquet creates the file, never a directory)
RECURSIVE save_db(_, _, _, _)
save_db(frame, ds, fs, months_to_save) ==
  IF months_to_save = <<>> THEN [files |-> fs, err |-> "ok"]
  ELSE LET year == months_to_save[1][1]
           month == months_to_save[1][2]
       IN IF DATE \notin frame.cols THEN [files |-> fs, err |-> "KeyError"]
          ELSE IF year \notin ds THEN [files |-> fs, err |-> "OSError"]
          ELSE save_db(frame, ds,
                       to_parquet(fs, <<year, month>>, MonthRows(frame, year, month)),
                       Tail(months_to_save))

(* ------------------------ _get_months_from_uuid ----------------------- *)
\* _get_months_from_uuid taking the last row that matches a uuid
RECURSIVE _get_months_last_match(_, _, _)
_get_months_last_match(frame, uuid_lst, months) ==
  IF uuid_lst = <<>> THEN [months |-> months, err |-> "ok"]
  ELSE IF ID \notin frame.cols \/ DATE \notin frame.cols
       THEN [months |-> {}, err |-> "KeyError"]
  ELSE LET match(row) == row[ID] = uuid_lst[1]
           found == SelectSeq(frame.rows, match)
       IN IF found = <<>> THEN [months |-> {}, err |-> "IndexError"]
          ELSE _get_months_last_match(frame, Tail(uuid_lst),
                 months \cup {PartitionKey(found[Len(found)])})

\* _get_months_from_uuid passing over a uuid that matches no row
RECURSIVE _get_months_skip_missing(_, _, _)
_get_months_skip_missing(frame, uuid_lst, months) ==
  IF uuid_lst = <<>> THEN [months |-> months, err |-> "ok"]
  ELSE IF ID \notin frame.cols \/ DATE \notin frame.cols
       THEN [months |-> {}, err |-> "KeyError"]
  ELSE LET match(row) == row[ID] = uuid_lst[1]
           found == SelectSeq(frame.rows, match)
       IN _get_months_skip_missing(frame, Tail(uuid_lst),
            IF found = <<>> THEN months ELSE months \cup {PartitionKey(found[1])})

\* the (year, month) of the first row matching each uuid; KeyError when the
\* table has no id column, IndexError (iloc[0]) when no row matches
RECURSIVE _get_months_from_uuid(_, _, _)
_get_months_from_uuid(frame, uuid_lst, months) ==
  IF uuid_lst = <<>> THEN [months |-> months, err |-> "ok"]
  ELSE IF ID \notin frame.cols \/ DATE \notin frame.cols
       THEN [months |-> {}, err |-> "KeyError"]
  ELSE LET match(row) == row[ID] = uuid_lst[1]
           found == SelectSeq(frame.rows, match)
       IN IF found = <<>> THEN [months |-> {}, err |-> "IndexError"]
          ELSE _get_months_from_uuid(frame, Tail(uuid_lst),
                                     months \cup {PartitionKey(found[1])})

(* ----------------------- _add_uuids, _apply_dtypes -------------------- *)
\* a new id column: row i gets the i-th value create_uuid returns next
_add_uuids(df, n) ==
  [cols |-> df.cols \cup {ID},
   rows |-> [i \in 1 .. Len(df.rows) |->
              [c \in df.cols \cup {ID} |-> IF c = ID THEN n + i ELSE df.rows[i][c]]]]

\* the columns _apply_dtypes reads
DtypeCols == {DATE, RECONCILED, INFLOW, OUTFLOW, AMOUNT, CAT, ACCOUNT}

Coerce(c, v) ==
  CASE c = DATE -> ToDatetime(v)
    [] c = RECONCILED -> ToBool(v)
    [] c \in get_numeric_cols -> Float(v)
    [] c \in {CAT, ACCOUNT} -> ToCategory(v)
    [] OTHER -> v

\* KeyError as soon as a column it reads is missing
_apply_dtypes(df) ==
  IF ~(DtypeCols \subseteq df.cols) THEN [df |-> df, err |-> "KeyError"]
  ELSE [df |-> [cols |-> df.cols,
                rows |-> [i \in 1 .. Len(df.rows) |->
                           [c \in df.cols |-> Coerce(c, df.rows[i][c])]]],
        err |-> "ok"]

(* ------------------------------ inputs -------------------------------- *)
\* a raw transaction as a caller hands it to insert_data, before coercion
RawRow(key, cols) ==
  LET full == (DATE :> <<key[1], key[2], 15>>) @@ (PAYEE :> "Store") @@
              (AMOUNT :> 4250) @@ (CAT :> "") @@ (MEMO :> "") @@
              (ACCOUNT :> None) @@ (INFLOW :> 0) @@ (OUTFLOW :> 0) @@
              (RECONCILED :> 0)
  IN [c \in cols |-> full[c]]

Frame(cols, ks) == [cols |-> cols, rows |-> [i \in 1 .. Len(ks) |-> RawRow(ks[i], cols)]]

\* frames of 1 .. MaxList complete rows, and one-row frames that leave the
\* non-mandatory columns out
InputFrames ==
  {Frame(get_db_col_names \ {ID}, ks) : ks \in SeqsUpTo(Keys, MaxList) \ {<<>>}} \cup
  {Frame(get_mandatory_cols, <<k>>) : k \in Keys}

\* what a Record carries besides its id and date
Payloads ==
  {[payee |-> "Store", cat |-> "", account |-> NaN, amount |-> 4250]}

\* Record: a well-typed transaction that already has its id
Record(id, key, p) ==
  (ID :> id) @@ (DATE :> [year |-> key[1], month |-> key[2], day |-> 15]) @@
  (PAYEE :> p.payee) @@ (CAT :> p.cat) @@ (MEMO :> "") @@
  (ACCOUNT :> p.account) @@ (INFLOW :> Float(0)) @@ (OUTFLOW :> Float(0)) @@
  (RECONCILED :> FALSE) @@ (AMOUNT :> Float(p.amount))

Records == {Record(id, key, p) : id \in RecordIds, key \in Keys, p \in Payloads}

\* Record.to_df(): a one-row frame over the schema's columns
to_df(record) == [cols |-> get_db_col_names, rows |-> <<record>>]

(* ------------------------------ connect ------------------------------- *)
\* read every <year>/<month>.pq in the order the directory listing gives
\* and concatenate; an empty root gives pd.DataFrame()
RECURSIVE concat_all(_, _)
concat_all(fs, paths) ==
  IF paths = <<>> THEN EmptyFrame
  ELSE Concat([cols |-> get_db_col_names, rows |-> fs[paths[1]]],
              concat_all(fs, Tail(paths)))

connect(fs, paths) == IF paths = <<>> THEN EmptyFrame ELSE concat_all(fs, paths)

NoFiles == [k \in {} |-> <<>>]

\* the year directories of the root: a directory is made by the user, the
\* store never creates one
InitDirs == {2022}

\* the files an earlier run of the store left in the directory of year y:
\* none, one month, or two months
InitFiles ==
  {NoFiles} \cup
  {(<<y, 1>> :> <<Record(101, <<y, 1>>, p)>>) : y \in InitDirs, p \in Payloads} \cup
  {(<<y, 1>> :> <<Record(101, <<y, 1>>, p)>>) @@ (<<y, 3>> :> <<Record(102, <<y, 3>>, p)>>) :
     y \in InitDirs, p \in Payloads}

Init ==
  /\ dirs = InitDirs
  /\ files \in InitFiles
  /\ \E paths \in Orders(DOMAIN files) : db = connect(files, paths)
  /\ uuids = 0
  /\ op = [name |-> "connect"]
  /\ err = "ok"
  /\ result = EmptyFrame

(* ----------------------------- operations ----------------------------- *)
\* save_db_from_uuid on the table frame: the months of the ids, in any
\* order (list(set)), then save_db
SaveFromUuid(frame, uuid_list) ==
  LET m == _get_months_from_uuid(frame, uuid_list, {})
  IN IF m.err # "ok" THEN {[files |-> files, err |-> m.err]}
     ELSE {save_db(frame, dirs, files, months) : months \in Orders(m.months)}

insert_data(df) ==
  /\ Len(db.rows) + Len(df.rows) <= MaxRows
  /\ uuids + Len(df.rows) <= MaxUuid
  /\ op' = [name |-> "insert_data", df |-> df]
  /\ uuids' = uuids + Len(df.rows)
  /\ result' = EmptyFrame
  /\ UNCHANGED dirs
  /\ LET typed == _apply_dtypes(_add_uuids(df, uuids))
     IN IF typed.err # "ok"
        THEN /\ err' = typed.err
             /\ UNCHANGED <<db, files>>
        ELSE /\ db' = Concat(db, typed.df)
             /\ \E r \in SaveFromUuid(db', [i \in 1 .. Len(typed.df.rows) |-> typed.df.rows[i][ID]]) :
                  /\ files' = r.files
                  /\ err' = r.err

\* insert_record putting the table back when the save fails
insert_record_undo(record) ==
  /\ Len(db.rows) < MaxRows
  /\ op' = [name |-> "insert_record", record |-> record]
  /\ result' = EmptyFrame
  /\ UNCHANGED <<dirs, uuids>>
  /\ \E r \in SaveFromUuid(Concat(db, to_df(record)), <<record[ID]>>) :
       /\ files' = r.files
       /\ err' = r.err
       /\ db' = IF r.err = "ok" THEN Concat(db, to_df(record)) ELSE db

insert_record(record) ==
  /\ Len(db.rows) < MaxRows
  /\ op' = [name |-> "insert_record", record |-> record]
  /\ result' = EmptyFrame
  /\ UNCHANGED <<dirs, uuids>>
  /\ db' = Concat(db, to_df(record))
  /\ \E r \in SaveFromUuid(db', <<record[ID]>>) :
       /\ files' = r.files
       /\ err' = r.err

\* delete_data removing the rows before it looks up their months
delete_data_removes_first(uuid_list) ==
  /\ op' = [name |-> "delete_data", uuid_list |-> uuid_list]
  /\ result' = EmptyFrame
  /\ UNCHANGED <<dirs, uuids>>
  /\ IF ID \notin db.cols
     THEN /\ err' = "KeyError"
          /\ UNCHANGED <<db, files>>
     ELSE /\ db' = NotIsIn(db, uuid_list)
          /\ LET m == _get_months_from_uuid(db, uuid_list, {})
             IN IF m.err # "ok"
                THEN /\ err' = m.err
                     /\ UNCHANGED files
                ELSE \E months \in Orders(m.months) :
                       LET r == save_db(db', dirs, files, months)
                       IN /\ files' = r.files
                          /\ err' = r.err

delete_data(uuid_list) ==
  /\ op' = [name |-> "delete_data", uuid_list |-> uuid_list]
  /\ result' = EmptyFrame
  /\ UNCHANGED <<dirs, uuids>>
  /\ LET m == _get_months_from_uuid(db, uuid_list, {})
     IN IF m.err # "ok"
        THEN /\ err' = m.err
             /\ UNCHANGED <<db, files>>
        ELSE IF ID \notin db.cols
        THEN /\ err' = "KeyError"
             /\ UNCHANGED <<db, files>>
        ELSE /\ db' = NotIsIn(db, uuid_list)
             /\ \E months \in Orders(m.months) :
                  LET r == save_db(db', dirs, files, months)
                  IN /\ files' = r.files
                     /\ err' = r.err

save_db_call(months_to_save) ==
  /\ op' = [name |-> "save_db", months_to_save |-> months_to_save]
  /\ result' = EmptyFrame
  /\ UNCHANGED <<db, dirs, uuids>>
  /\ LET r == save_db(db, dirs, files, months_to_save)
     IN /\ files' = r.files
        /\ err' = r.err

save_db_from_uuid(uuid_list) ==
  /\ op' = [name |-> "save_db_from_uuid", uuid_list |-> uuid_list]
  /\ result' = EmptyFrame
  /\ UNCHANGED <<db, dirs, uuids>>
  /\ \E r \in SaveFromUuid(db, uuid_list) :
       /\ files' = r.files
       /\ err' = r.err

\* self._db[self._db['id'].isin(uuid_list)]: KeyError on a table without
\* an id column
GetById(frame, uuid_list) ==
  IF ID \notin frame.cols THEN [frame |-> EmptyFrame, err |-> "KeyError"]
  ELSE [frame |-> IsIn(frame, uuid_list), err |-> "ok"]

get_data_by_id(uuid_list) ==
  /\ op' = [name |-> "get_data_by_id", uuid_list |-> uuid_list]
  /\ UNCHANGED <<db, dirs, files, uuids>>
  /\ err' = GetById(db, uuid_list).err
  /\ result' = GetById(db, uuid_list).frame

\* Series == val: a missing value equals nothing
PandasEq(a, val) == a # NaN /\ a = val

\* the loop of get_data_by_col_val over a filter that keeps the first
\* column / value pair alone
RECURSIVE ByColValFirstOnly(_, _)
ByColValFirstOnly(frame, items) ==
  IF items = <<>> THEN [frame |-> frame, err |-> "ok"]
  ELSE IF items[1][1] \notin frame.cols THEN [frame |-> EmptyFrame, err |-> "KeyError"]
  ELSE LET hit(row) == PandasEq(row[items[1][1]], items[1][2])
       IN [frame |-> [cols |-> frame.cols, rows |-> SelectSeq(frame.rows, hit)], err |-> "ok"]

\* the loop of get_data_by_col_val over the items of col_val_dict:
\* db_tmp = db_tmp[db_tmp[col] == val], KeyError on a column db_tmp lacks
RECURSIVE ByColVal(_, _)
ByColVal(frame, items) ==
  IF items = <<>> THEN [frame |-> frame, err |-> "ok"]
  ELSE IF items[1][1] \notin frame.cols THEN [frame |-> EmptyFrame, err |-> "KeyError"]
  ELSE LET hit(row) == PandasEq(row[items[1][1]], items[1][2])
       IN ByColVal([cols |-> frame.cols, rows |-> SelectSeq(frame.rows, hit)], Tail(items))

get_data_by_col_val(col_val_dict) ==
  /\ op' = [name |-> "get_data_by_col_val", col_val_dict |-> col_val_dict]
  /\ UNCHANGED <<db, dirs, files, uuids>>
  /\ err' = ByColVal(db, col_val_dict).err
  /\ result' = ByColVal(db, col_val_dict).frame

\* disconnect returning quietly instead of raising
disconnect_returns ==
  /\ op' = [name |-> "disconnect"]
  /\ err' = "ok"
  /\ result' = EmptyFrame
  /\ UNCHANGED <<db, dirs, files, uuids>>

disconnect ==
  /\ op' = [name |-> "disconnect"]
  /\ err' = "NotImplementedError"
  /\ result' = EmptyFrame
  /\ UNCHANGED <<db, dirs, files, uuids>>

update_data ==
  /\ op' = [name |-> "update_data"]
  /\ err' = "ok"
  /\ result' = EmptyFrame
  /\ UNCHANGED <<db, dirs, files, uuids>>

\* uuid lists are given in ascending order: no operation depends on the
\* order of its uuid list
UuidLists ==
  {s \in ListsUpTo(AllIds, MaxList) : \A i, j \in 1 .. Len(s) : i < j => s[i] < s[j]}
MonthLists == ListsUpTo(Keys, MaxList)

\* records that differ in account and category, for the column filters
FilterPayloads ==
  {[payee |-> "Store", cat |-> "C", account |-> "A", amount |-> 4250],
   [payee |-> "Store", cat |-> "", account |-> "A", amount |-> 4250],
   [payee |-> "Store", cat |-> "C", account |-> NaN, amount |-> 4250]}

FilterRecords == {Record(id, key, p) : id \in RecordIds, key \in Keys, p \in FilterPayloads}

\* col_val_dict as the list of its items: no column twice; "currency" is a
\* column the schema does not have
FilterItems == {<<ACCOUNT, "A">>, <<CAT, "C">>, <<CAT, "">>, <<"currency", "A">>}
ColValDicts ==
  {s \in ListsUpTo(FilterItems, MaxList) : \A i, j \in 1 .. Len(s) : s[i][1] = s[j][1] => i = j}

\* the mutating operations: any sequence of inserts and deletes
Next ==
  \/ \E df \in InputFrames : insert_data(df)
  \/ \E record \in Records : insert_record(record)
  \/ \E uuid_list \in UuidLists : delete_data(uuid_list)

Spec == Init /\ [][Next]_vars

\* ... and explicit saves of a list of months
NextSave ==
  \/ \E df \in InputFrames : insert_data(df)
  \/ \E record \in Records : insert_record(record)
  \/ \E uuid_list \in UuidLists : delete_data(uuid_list)
  \/ \E months_to_save \in MonthLists : save_db_call(months_to_save)

SpecSave == Init /\ [][NextSave]_vars

\* every public operation of the store
NextAll ==
  \/ \E df \in InputFrames : insert_data(df)
  \/ \E record \in Records : insert_record(record)
  \/ \E uuid_list \in UuidLists : delete_data(uuid_list)
  \/ \E months_to_save \in MonthLists : save_db_call(months_to_save)
  \/ \E uuid_list \in UuidLists : save_db_from_uuid(uuid_list)
  \/ \E uuid_list \in UuidLists : get_data_by_id(uuid_list)
  \/ disconnect
  \/ update_data

SpecAll == Init /\ [][NextAll]_vars

\* inserts and deletes with lookups by id, disconnect and update_data
NextQuery ==
  \/ \E df \in InputFrames : insert_data(df)
  \/ \E record \in Records : insert_record(record)
  \/ \E uuid_list \in UuidLists : delete_data(uuid_list)
  \/ \E uuid_list \in UuidLists : get_data_by_id(uuid_list)
  \/ disconnect
  \/ update_data

SpecQuery == Init /\ [][NextQuery]_vars

\* inserts and deletes with saves by uuid list
NextUuid ==
  \/ \E df \in InputFrames : insert_data(df)
  \/ \E record \in Records : insert_record(record)
  \/ \E uuid_list \in UuidLists : delete_data(uuid_list)
  \/ \E uuid_list \in UuidLists : save_db_from_uuid(uuid_list)

SpecUuid == Init /\ [][NextUuid]_vars

\* records of several accounts and categories, and filters by column value
NextFilter ==
  \/ \E record \in FilterRecords : insert_record(record)
  \/ \E uuid_list \in UuidLists : delete_data(uuid_list)
  \/ \E col_val_dict \in ColValDicts : get_data_by_col_val(col_val_dict)

SpecFilter == Init /\ [][NextFilter]_vars

(* ------------------------------ claims -------------------------------- *)
\* how often x occurs in s
Count(s, x) == Cardinality({i \in 1 .. Len(s) : s[i] = x})

\* x occurs as often in s as in t, for every x
SameBag(s, t) == \A x \in Range(s) \cup Range(t) : Count(s, x) = Count(t, x)

\* the rows of every file on disk, one file after the other
RECURSIVE RowsOf(_, _)
RowsOf(fs, paths) ==
  IF paths = {} THEN <<>>
  ELSE LET k == CHOOSE k \in paths : TRUE IN fs[k] \o RowsOf(fs, paths \ {k})

DiskRows == RowsOf(files, DOMAIN files)

\* some row of the frame carries the id
HasId(frame, id) == \E i \in 1 .. Len(frame.rows) : frame.rows[i][ID] = id

\* the file of partition k exists and holds exactly the rows of the frame
\* dated in k
FileIsSlice(fs, frame, k) ==
  /\ k \in DOMAIN fs
  /\ LET dated(row) == row[DATE].year = k[1] /\ row[DATE].month = k[2]
     IN fs[k] = SelectSeq(frame.rows, dated)

\* the file of partition k is the same before and after (absent or equal)
FileSame(fs1, fs2, k) ==
  /\ (k \in DOMAIN fs1) = (k \in DOMAIN fs2)
  /\ k \in DOMAIN fs1 => fs1[k] = fs2[k]

\* C1: after any sequence of insert_data, insert_record and delete_data the
\* rows of all partition files together are, as a multiset, the rows of the
\* in-memory table, and every row in the file of (y, m) is dated in (y, m).
C1_DiskEqualsTable ==
  /\ SameBag(DiskRows, db.rows)
  /\ \A k \in DOMAIN files : \A i \in 1 .. Len(files[k]) : PartitionKey(files[k][i]) = k

\* C2: no two rows of the in-memory table share an id, whatever the sequence
\* of insert_data, insert_record and delete_data calls (create_uuid never
\* repeats a value).
C2_UniqueIds ==
  \A i, j \in 1 .. Len(db.rows) : db.rows[i][ID] = db.rows[j][ID] => i = j

\* C3: when delete_data([id]) returns for an id present in the table,
\* get_data_by_id([id]) is empty and the file of the partition of every row
\* that carried the id no longer holds a row with that id.
C3_DeleteThenLookup ==
  [][(/\ op'.name = "delete_data"
      /\ err' = "ok"
      /\ Len(op'.uuid_list) = 1
      /\ HasId(db, op'.uuid_list[1]))
     => (/\ GetById(db', op'.uuid_list).err = "ok"
         /\ GetById(db', op'.uuid_list).frame.rows = <<>>
         /\ \A i \in 1 .. Len(db.rows) :
              (/\ db.rows[i][ID] = op'.uuid_list[1]
               /\ PartitionKey(db.rows[i]) \in DOMAIN files')
              => \A j \in 1 .. Len(files'[PartitionKey(db.rows[i])]) :
                   files'[PartitionKey(db.rows[i])][j][ID] # op'.uuid_list[1])]_vars

\* C4: in every reachable state, after insert_record(R) the lookup
\* get_data_by_id([R.id]) returns exactly one row, and that row is R.
C4_InsertThenLookup ==
  op.name = "insert_record" =>
    /\ GetById(db, <<op.record[ID]>>).err = "ok"
    /\ GetById(db, <<op.record[ID]>>).frame.rows = <<op.record>>

\* the partitions of the rows of the frame whose id is in the list
KeysOfIds(frame, uuid_list) ==
  {PartitionKey(frame.rows[i]) : i \in {j \in 1 .. Len(frame.rows) : frame.rows[j][ID] \in Range(uuid_list)}}

\* C5: a delete_data(ids) that returns has rewritten the file of the
\* partition of every removed row from the post-deletion table (a zero-row
\* file when the partition is emptied) and left every other file unchanged.
C5_DeleteFrame ==
  [][(op'.name = "delete_data" /\ err' = "ok")
     => \A k \in Keys :
          IF k \in KeysOfIds(db, op'.uuid_list)
          THEN FileIsSlice(files', db', k)
          ELSE FileSame(files, files', k)]_vars

\* the partitions of the rows an insert appended to the table
NewKeys == {PartitionKey(db'.rows[i]) : i \in (Len(db.rows) + 1) .. Len(db'.rows)}

\* C6: an insert_data or insert_record that returns has rewritten the file
\* of the partition of every new row from the post-insert table and left the
\* file of every partition that received no new row unchanged.
C6_InsertFrame ==
  [][(op'.name \in {"insert_data", "insert_record"} /\ err' = "ok")
     => \A k \in Keys :
          IF k \in NewKeys
          THEN FileIsSlice(files', db', k)
          ELSE FileSame(files, files', k)]_vars

\* C7: when save_db(keys) returns, the file of every key holds exactly the
\* rows of the in-memory table dated in that year and month: a zero-row file
\* when no row is.
C7_SaveDbWritesSlices ==
  (op.name = "save_db" /\ err = "ok")
    => \A i \in 1 .. Len(op.months_to_save) : FileIsSlice(files, db, op.months_to_save[i])

\* a save_db of two months has returned: one written with rows, one with none
C7_Witness ==
  /\ op.name = "save_db"
  /\ err = "ok"
  /\ \E i, j \in 1 .. Len(op.months_to_save) :
       /\ files[op.months_to_save[i]] = <<>>
       /\ files[op.months_to_save[j]] # <<>>

\* C8: a second save_db with the same keys, nothing having changed since the
\* first, leaves every file with the rows the first call left and ends as
\* the first did; save_db never changes the in-memory table.
C8_SaveDbIdempotent ==
  /\ [](op.name = "save_db" =>
          /\ save_db(db, dirs, files, op.months_to_save).files = files
          /\ save_db(db, dirs, files, op.months_to_save).err = err)
  /\ [][op'.name = "save_db" => db' = db]_vars

\* a save_db over two months has written files that hold rows
C8_Witness ==
  /\ op.name = "save_db"
  /\ err = "ok"
  /\ Len(op.months_to_save) = 2
  /\ \A i \in 1 .. 2 : files[op.months_to_save[i]] # <<>>

\* C9: insert_record of a record whose partition has no file yet, also in a
\* year without a directory, succeeds and leaves a file for the partition
\* that holds the record (the record's id being new to the table).
C9_PartitionCreatedOnFirstWrite ==
  [][(/\ op'.name = "insert_record"
      /\ ~HasId(db, op'.record[ID])
      /\ PartitionKey(op'.record) \notin DOMAIN files)
     => (/\ err' = "ok"
         /\ PartitionKey(op'.record) \in DOMAIN files'
         /\ op'.record \in Range(files'[PartitionKey(op'.record)]))]_vars

\* C10: insert_data of one row that has only date, payee and amount succeeds
\* and appends one row that carries the registry defaults in the other
\* columns and an id no earlier row has.
C10_DefaultsOnInsert ==
  [][(/\ op'.name = "insert_data"
      /\ op'.df.cols = get_mandatory_cols
      /\ Len(op'.df.rows) = 1)
     => (/\ err' = "ok"
         /\ Len(db'.rows) = Len(db.rows) + 1
         /\ LET row == db'.rows[Len(db'.rows)]
            IN /\ row[CAT] = ""
               /\ row[MEMO] = ""
               /\ row[ACCOUNT] = NaN
               /\ row[INFLOW] = Float(0)
               /\ row[OUTFLOW] = Float(0)
               /\ row[RECONCILED] = FALSE
               /\ row[AMOUNT] = Float(op'.df.rows[1][AMOUNT])
               /\ ~HasId(db, row[ID]))]_vars

\* the rows of the frame whose id is in the list, in the frame's order
RowsWithIds(frame, uuid_list) ==
  LET named(row) == \E i \in 1 .. Len(uuid_list) : row[ID] = uuid_list[i]
  IN SelectSeq(frame.rows, named)

\* C11: in every reachable state, a store connected to an empty root
\* included, get_data_by_id(ids) raises nothing, returns the table rows whose
\* id is in ids in table order (absent ids add nothing) and changes neither
\* the table nor a file.
C11_LookupNeverFails ==
  [][op'.name = "get_data_by_id"
     => (/\ err' = "ok"
         /\ result'.rows = RowsWithIds(db, op'.uuid_list)
         /\ db' = db
         /\ files' = files)]_vars

\* the rows of the frame that carry the value of every item in its column
RowsMatchingAll(frame, items) ==
  LET all(row) == \A i \in 1 .. Len(items) : row[items[i][1]] = items[i][2]
  IN SelectSeq(frame.rows, all)

\* C12: get_data_by_col_val(filters) fails when a filter names a column the
\* table does not have; otherwise it returns exactly the table rows that
\* carry the given value in every filtered column, the full table when the
\* filter is empty.
C12_FilterIsConjunction ==
  op.name = "get_data_by_col_val" =>
    IF \E i \in 1 .. Len(op.col_val_dict) : op.col_val_dict[i][1] \notin db.cols
    THEN err = "KeyError"
    ELSE /\ err = "ok"
         /\ result.cols = db.cols
         /\ result.rows = RowsMatchingAll(db, op.col_val_dict)
         /\ op.col_val_dict = <<>> => result = db

\* a filter on two columns returned rows, and fewer than the table holds
\* with the first value in the first column
C12_Witness ==
  /\ op.name = "get_data_by_col_val"
  /\ err = "ok"
  /\ Len(op.col_val_dict) = 2
  /\ Len(result.rows) >= 1
  /\ Len(result.rows) < Len(RowsMatchingAll(db, <<op.col_val_dict[1]>>))

\* IndexError and KeyError are the lookup errors (subclasses of LookupError)
LookupErrors == {"IndexError", "KeyError"}

\* C13: delete_data(ids) and save_db_from_uuid(ids) end in a lookup error
\* whenever an id of ids matches no row of the table; nothing is written
\* before the error reaches the caller.
C13_MissingIdRaises ==
  [][(/\ op'.name \in {"delete_data", "save_db_from_uuid"}
      /\ \E i \in 1 .. Len(op'.uuid_list) : ~HasId(db, op'.uuid_list[i]))
     => (err' \in LookupErrors /\ files' = files)]_vars

\* a save by two ids, one of them in the table, ended in IndexError
C13_Witness ==
  /\ op.name = "save_db_from_uuid"
  /\ err = "IndexError"
  /\ Len(op.uuid_list) = 2
  /\ \E i \in 1 .. 2 : HasId(db, op.uuid_list[i])

FirstFailure(frame, ds, months) ==
  IF DATE \notin frame.cols THEN 1
  ELSE CHOOSE k \in 1 .. Len(months) :
         /\ months[k][1] \notin ds
         /\ \A i \in 1 .. k - 1 : months[i][1] \in ds

\* C15: when save_db fails at the k-th of its months, the files of the
\* months before the k-th hold the table's rows of their month, the files
\* of the k-th and the later months, and every file not named, are as they
\* were before the call, and the call ends with the error of the write.
C15_SaveDbNoRollback ==
  [][(op'.name = "save_db" /\ err' # "ok")
     => LET months == op'.months_to_save
            k == FirstFailure(db, dirs, months)
        IN /\ err' \in {"OSError", "KeyError"}
           /\ \A i \in 1 .. k - 1 : FileIsSlice(files', db, months[i])
           /\ \A i \in k .. Len(months) : FileSame(files, files', months[i])
           /\ \A q \in (DOMAIN files \cup DOMAIN files') \ Range(months) : FileSame(files, files', q)
           /\ db' = db]_vars

\* a save_db of two months failed at the second: the file of the first holds
\* rows, the second month has rows in the table and no file
C15_Witness ==
  /\ op.name = "save_db"
  /\ err = "OSError"
  /\ Len(op.months_to_save) = 2
  /\ op.months_to_save[2][1] \notin dirs
  /\ op.months_to_save[1] \in DOMAIN files
  /\ files[op.months_to_save[1]] # <<>>
  /\ op.months_to_save[2] \notin DOMAIN files
  /\ \E i \in 1 .. Len(db.rows) : PartitionKey(db.rows[i]) = op.months_to_save[2]

\* C16: a delete_data whose list names an id that matches no row fails and
\* leaves the table and every file as they were, the rows of the list's
\* other ids included.
C16_FailedDeleteChangesNothing ==
  [][(/\ op'.name = "delete_data"
      /\ \E i \in 1 .. Len(op'.uuid_list) : ~HasId(db, op'.uuid_list[i]))
     => (err' # "ok" /\ db' = db /\ files' = files)]_vars

\* a delete_data of two ids failed on the missing one; the row of the other
\* id is still in the table
C16_Witness ==
  /\ op.name = "delete_data"
  /\ err = "IndexError"
  /\ Len(op.uuid_list) = 2
  /\ \E i \in 1 .. 2 : HasId(db, op.uuid_list[i])

RowsWithoutIds(frame, uuid_list) ==
  LET other(row) == \A i \in 1 .. Len(uuid_list) : row[ID] # uuid_list[i]
  IN SelectSeq(frame.rows, other)

\* C18: a mutation changes no row it does not target. After insert_record
\* the table is the table before followed by the record; after insert_data
\* it is the table before followed by one row per row of the frame, in the
\* frame's order, with the ids create_uuid gave; after delete_data it is
\* the table before without the rows whose id is in the list. A call that
\* fails before it reaches the table leaves the table as it was.
C18_OnlyTargetedRowsChange ==
  [][IF err' \notin {"ok", "OSError"} THEN db' = db
     ELSE /\ op'.name = "insert_record" => db'.rows = db.rows \o <<op'.record>>
          /\ op'.name = "insert_data" =>
               /\ Len(db'.rows) = Len(db.rows) + Len(op'.df.rows)
               /\ \A i \in 1 .. Len(db.rows) : db'.rows[i] = db.rows[i]
               /\ \A j \in 1 .. Len(op'.df.rows) :
                    LET new == db'.rows[Len(db.rows) + j]
                    IN /\ new[ID] = uuids + j
                       /\ new[DATE].year = op'.df.rows[j][DATE][1]
                       /\ new[DATE].month = op'.df.rows[j][DATE][2]
                       /\ new[PAYEE] = op'.df.rows[j][PAYEE]
          /\ op'.name = "delete_data" => db'.rows = RowsWithoutIds(db, op'.uuid_list)]_vars

\* insert_record has put a record behind a different row of the table
C18_Witness ==
  /\ op.name = "insert_record"
  /\ err = "ok"
  /\ Len(db.rows) = 2
  /\ db.rows[2] = op.record
  /\ db.rows[1] # db.rows[2]

\* the (year, month) of the first row of the frame that carries the id
FirstKey(frame, id) ==
  LET i == CHOOSE i \in 1 .. Len(frame.rows) :
             /\ frame.rows[i][ID] = id
             /\ \A j \in 1 .. i - 1 : frame.rows[j][ID] # id
  IN <<frame.rows[i][DATE].year, frame.rows[i][DATE].month>>

\* C19: for ids that are all in the table _get_months_from_uuid returns the
\* set of the (year, month) of the first row matching each id, and a
\* save_db_from_uuid that returns has written the file of each of these
\* partitions as the table's rows of that month and left every other file
\* as it was.
C19_MonthsOfFirstMatch ==
  [][(/\ op'.name = "save_db_from_uuid"
      /\ \A i \in 1 .. Len(op'.uuid_list) : HasId(db, op'.uuid_list[i]))
     => LET keys == {FirstKey(db, op'.uuid_list[i]) : i \in 1 .. Len(op'.uuid_list)}
            m == _get_months_from_uuid(db, op'.uuid_list, {})
        IN /\ m.err = "ok"
           /\ m.months = keys
           /\ err' \in {"ok", "OSError"}
           /\ err' = "ok" =>
                /\ \A k \in keys : FileIsSlice(files', db, k)
                /\ \A k \in (DOMAIN files \cup DOMAIN files') \ keys : FileSame(files, files', k)]_vars

\* a save_db_from_uuid of two ids whose rows are dated in the same month has
\* returned
C19_Witness ==
  /\ op.name = "save_db_from_uuid"
  /\ err = "ok"
  /\ Len(op.uuid_list) = 2
  /\ \A i \in 1 .. 2 : HasId(db, op.uuid_list[i])
  /\ FirstKey(db, op.uuid_list[1]) = FirstKey(db, op.uuid_list[2])
====
